---- MODULE Spec2Model ----
(***************************************************************************)
(* Model of example-agent/app/agent.py: the module body that configures    *)
(* the agent (environment defaults, the four tool functions, the profile   *)
(* switch on ENABLE_SUGGESTIONS_TESTING, Agent(...) and App(...)), and the *)
(* tool functions as the agent runtime invokes them afterwards.            *)
(*                                                                         *)
(* Python values are modelled as follows.                                  *)
(*   - a query string is a sequence of one-character strings, so that      *)
(*     lower() and the substring test `in` are computed, not assumed;      *)
(*   - an f-string result is the sequence of its pieces: the literal parts *)
(*     are single elements, the substituted query contributes its          *)
(*     characters, the strftime text is one structured element;            *)
(*   - a dict is an insertion-ordered sequence of <<key, value>> pairs and *)
(*     every value carries its Python type, json_dumps turns that into a   *)
(*     JSON document (object / array / string / number);                   *)
(*   - an instant is an integer count of clock ticks, TicksPerHour ticks   *)
(*     to the hour; datetime.now() reads the wall clock, which never runs  *)
(*     backwards here but may advance by any amount between two reads;     *)
(*   - random.choice / random.randint are nondeterministic choices.        *)
(***************************************************************************)
EXTENDS Integers, Sequences, FiniteSets

VARIABLES
    flag,               \* ENABLE_SUGGESTIONS_TESTING (agent.py:28)
    pc,                 \* position in the module body / "serving" / "failed"
    environ,            \* os.environ restricted to the three keys of lines 31-33
    defined,            \* names of the tool functions bound so far (def statements)
    agent_instruction,  \* module global, "unset" until line 119 / 136 runs
    agent_tools,        \* module global, <<>> until line 133 / 137 runs
    root_agent,         \* the Agent built at lines 139-144, NoAgent before
    app,                \* the App built at line 146
    registrations,      \* number of Agent(...) calls made by this process
    clock,              \* last value the wall clock was seen at
    last,               \* the last tool invocation: arguments, draws, result
    calls,              \* tool invocations made since the first launch
    prev                \* what the previous process selected, for comparison

vars == <<flag, pc, environ, defined, agent_instruction, agent_tools, root_agent,
          app, registrations, clock, last, calls, prev>>

-----------------------------------------------------------------------------
\* Bounds of the model.

\* Longest enumerated query over Alphabet.
MaxLen == 3
\* Clock ticks in one hour.
TicksPerHour == 2
\* Largest wall-clock value explored.
MaxClock == 2
\* First tick at which America/Los_Angeles is on daylight time in the model.
DstStart == 1
\* Tool invocations explored, over all launches together.
MaxCalls == 2

-----------------------------------------------------------------------------
\* Strings.

Upper == <<"A","B","C","D","E","F","G","H","I","J","K","L","M",
           "N","O","P","Q","R","S","T","U","V","W","X","Y","Z">>
Lowercase == <<"a","b","c","d","e","f","g","h","i","j","k","l","m",
               "n","o","p","q","r","s","t","u","v","w","x","y","z">>

\* str.lower() on one ASCII character.
LowerChar(c) ==
    IF \E i \in 1..Len(Upper) : Upper[i] = c
    THEN Lowercase[CHOOSE i \in 1..Len(Upper) : Upper[i] = c]
    ELSE c

\* str.lower()
lower(s) == [i \in 1..Len(s) |-> LowerChar(s[i])]

\* needle in hay (Python's substring test)
Contains(needle, hay) ==
    \E i \in 1..(Len(hay) - Len(needle) + 1) :
        SubSeq(hay, i, i + Len(needle) - 1) = needle

SF == <<"s","f">>
SAN_FRANCISCO == <<"s","a","n"," ","f","r","a","n","c","i","s","c","o">>

\* The condition of lines 45 and 59.
MatchesSF(query) ==
    Contains(SF, lower(query)) \/ Contains(SAN_FRANCISCO, lower(query))

-----------------------------------------------------------------------------
\* The queries, equipment ids and hours the runtime passes in.

Alphabet == {"s", "f", "S", "x"}

RECURSIVE StringsUpTo(_)
StringsUpTo(n) ==
    IF n = 0 THEN {<<>>}
    ELSE LET shorter == StringsUpTo(n - 1)
         IN  shorter \cup {Append(s, c) : s \in {t \in shorter : Len(t) = n - 1},
                                          c \in Alphabet}

LongQueries ==
    { <<"s","a","n"," ","f","r","a","n","c","i","s","c","o">>,
      <<"S","a","n"," ","F","r","a","n","c","i","s","c","o">>,
      <<"S","A","N"," ","F","R","A","N","C","I","S","C","O">>,
      <<"i","n"," ","s","A","n"," ","f","R","a","n","c","i","s","c","o","?">>,
      <<"s","a","n"," "," ","f","r","a","n","c","i","s","c","o">>,
      <<"s","a","n","f","r","a","n","c","i","s","c","o">>,
      <<"s","a","n"," ","f","r","a","n","c","i","s","c">>,
      <<"T","o","k","y","o">>,
      <<"s"," ","f">>,
      <<"s","F">>,
      <<"S","F">>,
      <<"U","S","F">> }

Queries == StringsUpTo(MaxLen) \cup LongQueries

EquipmentIds == {"pump-1", "motor-2"}

HoursValues == {0, 24}

-----------------------------------------------------------------------------
\* get_weather (lines 36-47).

get_weather_case_sensitive(query) ==
    IF Contains(SF, query) \/ Contains(SAN_FRANCISCO, query)
    THEN "It's 60 degrees and foggy."
    ELSE "It's 90 degrees and sunny."

get_weather(query) ==
    IF MatchesSF(query)
    THEN "It's 60 degrees and foggy."
    ELSE "It's 90 degrees and sunny."

-----------------------------------------------------------------------------
\* get_current_time (lines 50-66).

\* ZoneInfo("America/Los_Angeles") at instant t: abbreviation, printed offset
\* and offset in hours (line 60, line 64).
LosAngeles(t) ==
    IF t >= DstStart
    THEN [Z |-> "PDT", z |-> "-0700", hours |-> -7]
    ELSE [Z |-> "PST", z |-> "-0800", hours |-> -8]

\* datetime.datetime.now(tz) for the wall-clock reading t: the local wall time
\* in tz together with the zone data in force (line 65).
now_in(tz, t) == [local |-> t + tz.hours * TicksPerHour, Z |-> tz.Z, z |-> tz.z]

\* now.strftime('%Y-%m-%d %H:%M:%S %Z%z') (line 66): date and hour, the part
\* of the hour, the zone abbreviation and the offset.
strftime(dt) ==
    [ymdH |-> dt.local \div TicksPerHour, MS |-> dt.local % TicksPerHour,
     Z |-> dt.Z, z |-> dt.z]

SorryPrefix == "Sorry, I don't have timezone information for query: "
TimePrefix == "The current time for query "

get_current_time_lowered(query, t) ==
    IF MatchesSF(query)
    THEN <<TimePrefix>> \o lower(query) \o <<" is ", strftime(now_in(LosAngeles(t), t))>>
    ELSE <<SorryPrefix>> \o lower(query) \o <<".">>

\* t is the wall-clock reading of line 65; it is read only on the match path.
get_current_time(query, t) ==
    IF MatchesSF(query)
    THEN <<TimePrefix>> \o query \o <<" is ", strftime(now_in(LosAngeles(t), t))>>
    ELSE <<SorryPrefix>> \o query \o <<".">>

-----------------------------------------------------------------------------
\* Python values and json.dumps.

PyStr(s) == <<"str", s>>
PyFloat(literal) == <<"float", literal>>
PyInt(n) == <<"int", n>>
PyList(items) == <<"list", items>>
PyDict(pairs) == <<"dict", pairs>>

\* {**d, **more}: later keys replace earlier ones in place, new keys go last.
RECURSIVE DictUpdate(_, _)
DictUpdate(pairs, more) ==
    IF more = <<>> THEN pairs
    ELSE LET k == more[1][1]
             v == more[1][2]
             set == IF \E i \in 1..Len(pairs) : pairs[i][1] = k
                    THEN [i \in 1..Len(pairs) |->
                             IF pairs[i][1] = k THEN <<k, v>> ELSE pairs[i]]
                    ELSE Append(pairs, <<k, v>>)
         IN  DictUpdate(set, Tail(more))

\* json.dumps(v, indent=2): dict -> object (members in insertion order),
\* list -> array, str -> string, float and int -> number.
RECURSIVE json_dumps(_)
json_dumps(v) ==
    CASE v[1] = "dict" ->
            <<"object", [i \in 1..Len(v[2]) |-> <<v[2][i][1], json_dumps(v[2][i][2])>>]>>
      [] v[1] = "list" ->
            <<"array", [i \in 1..Len(v[2]) |-> json_dumps(v[2][i])]>>
      [] v[1] = "str" -> <<"string", v[2]>>
      [] OTHER -> <<"number", v[2]>>

-----------------------------------------------------------------------------
\* get_equipment_state (lines 72-91).

states_mixed(equipment_id) ==
    << PyDict(<< <<"equipment_id", PyStr(equipment_id)>>, <<"status", PyStr("running")>>,
                 <<"state", PyStr("normal_operation")>>,
                 <<"temperature_celsius", PyFloat("45.2")>>,
                 <<"pressure_psi", PyFloat("120.0")>>, <<"alerts", PyList(<<>>)>> >>),
       PyDict(<< <<"equipment_id", PyStr(equipment_id)>>, <<"status", PyStr("maintenance")>>,
                 <<"state", PyStr("maintenance_mode")>>,
                 <<"temperature_celsius", PyFloat("25.0")>>,
                 <<"alerts", PyList(<<PyStr("scheduled_maintenance")>>)>> >>),
       PyDict(<< <<"equipment_id", PyStr(equipment_id)>>, <<"status", PyStr("warning")>>,
                 <<"state", PyStr("high_temperature")>>,
                 <<"temperature_celsius", PyFloat("78.5")>>,
                 <<"alerts", PyList(<<PyStr("temperature_warning"),
                                      PyStr("pressure_elevated")>>)>>,
                 <<"error_code", PyStr("E503")>> >>),
       PyDict(<< <<"equipment_id", PyStr(equipment_id)>>, <<"status", PyStr("error")>>,
                 <<"state", PyStr("fault")>>,
                 <<"temperature_celsius", PyFloat("95.0")>>,
                 <<"alerts", PyList(<<PyStr("critical_fault")>>)>>,
                 <<"error_code", PyStr("E503")>> >>) >>

\* The list `states` of lines 81-90.
states(equipment_id) ==
    << PyDict(<< <<"equipment_id", PyStr(equipment_id)>>, <<"status", PyStr("running")>>,
                 <<"state", PyStr("normal_operation")>>,
                 <<"temperature_celsius", PyFloat("45.2")>>,
                 <<"pressure_psi", PyFloat("120.0")>>, <<"alerts", PyList(<<>>)>> >>),
       PyDict(<< <<"equipment_id", PyStr(equipment_id)>>, <<"status", PyStr("maintenance")>>,
                 <<"state", PyStr("maintenance_mode")>>,
                 <<"temperature_celsius", PyFloat("25.0")>>,
                 <<"alerts", PyList(<<PyStr("scheduled_maintenance")>>)>> >>),
       PyDict(<< <<"equipment_id", PyStr(equipment_id)>>, <<"status", PyStr("warning")>>,
                 <<"state", PyStr("high_temperature")>>,
                 <<"temperature_celsius", PyFloat("78.5")>>,
                 <<"alerts", PyList(<<PyStr("temperature_warning"),
                                      PyStr("pressure_elevated")>>)>> >>),
       PyDict(<< <<"equipment_id", PyStr(equipment_id)>>, <<"status", PyStr("error")>>,
                 <<"state", PyStr("fault")>>,
                 <<"temperature_celsius", PyFloat("95.0")>>,
                 <<"alerts", PyList(<<PyStr("critical_fault")>>)>>,
                 <<"error_code", PyStr("E503")>> >>) >>

\* pick is the index random.choice draws (line 91).
get_equipment_state(equipment_id, pick) ==
    json_dumps(states(equipment_id)[pick])

-----------------------------------------------------------------------------
\* get_error_logs (lines 94-113).

\* The list `errors` of lines 104-108.
errors ==
    << << <<"code", PyStr("E404")>>, <<"severity", PyStr("warning")>>,
          <<"message", PyStr("Sensor timeout")>> >>,
       << <<"code", PyStr("E500")>>, <<"severity", PyStr("error")>>,
          <<"message", PyStr("System error")>> >>,
       << <<"code", PyStr("E503")>>, <<"severity", PyStr("critical")>>,
          <<"message", PyStr("Motor overheating")>> >> >>

\* datetime.isoformat() of a UTC instant: date and hour, then the part of
\* the hour, then the offset; texts of two instants compare as the instants.
isoformat(t) == <<t \div TicksPerHour, t % TicksPerHour, "+00:00">>

\* One element of the comprehension of lines 109-111, for index i (from 0),
\* wall-clock reading t and the index random.choice draws.
log_entry(equipment_id, i, t, pick) ==
    PyDict(DictUpdate(<< <<"timestamp", PyStr(isoformat(t - i * TicksPerHour))>>,
                         <<"equipment_id", PyStr(equipment_id)>> >>,
                      errors[pick]))

Min(a, b) == IF a < b THEN a ELSE b

get_error_logs_windowed(equipment_id, hours, n, nows, picks) ==
    LET logs == [k \in 1..Min(n, hours) |->
                    log_entry(equipment_id, k - 1, nows[k], picks[k])]
    IN  json_dumps(PyDict(<< <<"equipment_id", PyStr(equipment_id)>>,
                             <<"total_errors", PyInt(Len(logs))>>,
                             <<"logs", PyList(logs)>> >>))

\* n is the value random.randint(0, 3) returns; nows[k] and picks[k] are the
\* clock reading and the random.choice index of the k-th element built.
get_error_logs(equipment_id, hours, n, nows, picks) ==
    LET logs == [k \in 1..n |-> log_entry(equipment_id, k - 1, nows[k], picks[k])]
    IN  json_dumps(PyDict(<< <<"equipment_id", PyStr(equipment_id)>>,
                             <<"total_errors", PyInt(Len(logs))>>,
                             <<"logs", PyList(logs)>> >>))

-----------------------------------------------------------------------------
\* The profile switch (lines 116-137).

ToolOrder == <<"get_weather", "get_current_time", "get_equipment_state", "get_error_logs">>

BasicInstruction ==
    "You are a helpful AI assistant designed to provide accurate and useful information."

\* The triple-quoted text of lines 119-131 (the two non-ASCII characters
\* before "C" on line 128 are written as a space).
DiagnosticInstruction ==
    "You are a diagnostic assistant helping troubleshoot equipment.\n\nWhen users ask about equipment:\n1. Call the appropriate diagnostic tool (get_equipment_state, get_error_logs)\n2. After receiving tool results, ask a specific follow-up question based on the data\n3. Reference actual values from the tool response in your question\n\nExamples:\n- \"I see pump-1 is in {state}. What would you like to check next?\"\n- \"The temperature is at {temp} C. Is this normal for this equipment?\"\n- \"I found {count} errors. Which one should we investigate?\"\n\nAlways ask clear questions after calling tools to help guide troubleshooting."

DiagnosticToolsRepeated ==
    <<"get_weather", "get_current_time", "get_equipment_state", "get_weather">>

\* Line 133.
DiagnosticTools ==
    <<"get_weather", "get_current_time", "get_equipment_state", "get_error_logs">>

\* Line 137.
BasicTools == <<"get_weather", "get_current_time">>

InstructionForStateful(f) ==
    IF f \/ calls > 0 THEN DiagnosticInstruction ELSE BasicInstruction

\* The value bound to agent_instruction for a flag value (lines 117-136).
InstructionFor(f) == IF f THEN DiagnosticInstruction ELSE BasicInstruction

ToolsForLeaky(f) ==
    IF f THEN DiagnosticTools ELSE Append(BasicTools, "get_equipment_state")

\* The value bound to agent_tools for a flag value (lines 117-137).
ToolsFor(f) == IF f THEN DiagnosticTools ELSE BasicTools

Range(seq) == {seq[i] : i \in 1..Len(seq)}

-----------------------------------------------------------------------------
\* State.

NoAgent == [name |-> "none", model |-> "none", instruction |-> "unset", tools |-> <<>>]
NoApp == [name |-> "none", root_agent |-> NoAgent]
NoCall == [tool |-> "none"]
NoPrev == [selected |-> FALSE]

EnvKeys == {"GOOGLE_CLOUD_PROJECT", "GOOGLE_CLOUD_LOCATION", "GOOGLE_GENAI_USE_VERTEXAI"}

\* The environment the process is launched in: each key preset or absent.
LaunchEnvs ==
    { [k \in EnvKeys |-> "absent"],
      [k \in EnvKeys |-> IF k = "GOOGLE_CLOUD_LOCATION" THEN "us-central1" ELSE "absent"] }

\* os.environ.setdefault(key, value)
setdefault(env, key, value) ==
    IF env[key] = "absent" THEN [env EXCEPT ![key] = value] ELSE env

Init ==
    /\ flag \in BOOLEAN
    /\ pc = "env"
    /\ environ \in LaunchEnvs
    /\ defined = {}
    /\ agent_instruction = "unset"
    /\ agent_tools = <<>>
    /\ root_agent = NoAgent
    /\ app = NoApp
    /\ registrations = 0
    /\ clock = 0
    /\ last = NoCall
    /\ calls = 0
    /\ prev = NoPrev

-----------------------------------------------------------------------------
\* The module body, statement by statement.

\* Lines 30-33: google.auth.default() either raises (no credentials) or gives
\* a project id, after which three defaults are put into os.environ.
SetupEnv ==
    /\ pc = "env"
    /\ \E found \in BOOLEAN :
          IF found
          THEN /\ environ' = setdefault(
                                setdefault(
                                   setdefault(environ, "GOOGLE_CLOUD_PROJECT", "project-id"),
                                   "GOOGLE_CLOUD_LOCATION", "global"),
                                "GOOGLE_GENAI_USE_VERTEXAI", "True")
               /\ pc' = "defs"
          ELSE /\ environ' = environ
               /\ pc' = "failed"
    /\ UNCHANGED <<flag, defined, agent_instruction, agent_tools, root_agent, app,
                   registrations, clock, last, calls, prev>>

\* Lines 36-113: the four def statements, in source order.
DefineTool ==
    /\ pc = "defs"
    /\ defined' = defined \cup {ToolOrder[Cardinality(defined) + 1]}
    /\ pc' = IF Cardinality(defined) + 1 = Len(ToolOrder) THEN "select" ELSE "defs"
    /\ UNCHANGED <<flag, environ, agent_instruction, agent_tools, root_agent, app,
                   registrations, clock, last, calls, prev>>

\* Lines 116-137: evaluating the list display looks every name up; a name
\* that is not bound raises NameError and the import fails.
SelectProfile ==
    /\ pc = "select"
    /\ IF Range(ToolsFor(flag)) \subseteq defined
       THEN /\ agent_instruction' = InstructionFor(flag)
            /\ agent_tools' = ToolsFor(flag)
            /\ pc' = "agent"
       ELSE /\ UNCHANGED <<agent_instruction, agent_tools>>
            /\ pc' = "failed"
    /\ UNCHANGED <<flag, environ, defined, root_agent, app, registrations, clock,
                   last, calls, prev>>

\* Lines 139-144: the one outbound registration.
CreateAgent ==
    /\ pc = "agent"
    /\ root_agent' = [name |-> "root_agent", model |-> "gemini-2.5-flash",
                      instruction |-> agent_instruction, tools |-> agent_tools]
    /\ registrations' = registrations + 1
    /\ pc' = "app"
    /\ UNCHANGED <<flag, environ, defined, agent_instruction, agent_tools, app,
                   clock, last, calls, prev>>

\* Line 146.
CreateApp ==
    /\ pc = "app"
    /\ app' = [name |-> "app", root_agent |-> root_agent]
    /\ pc' = "serving"
    /\ UNCHANGED <<flag, environ, defined, agent_instruction, agent_tools, root_agent,
                   registrations, clock, last, calls, prev>>

-----------------------------------------------------------------------------
\* Tool invocations by the agent runtime: only tools of the registered agent,
\* one at a time (the runtime calls a tool function and takes what it returns).

CanInvoke(tool) ==
    /\ pc = "serving"
    /\ tool \in Range(root_agent.tools)
    /\ last = NoCall
    /\ calls < MaxCalls

Readings == clock..MaxClock

GetWeatherLeaky ==
    /\ CanInvoke("get_weather")
    /\ \E query \in Queries :
          last' = [tool |-> "get_weather", query |-> query,
                   result |-> get_weather(query)]
    /\ calls' = calls + 1
    /\ agent_tools' = Append(agent_tools, "get_weather")
    /\ root_agent' = [root_agent EXCEPT !.tools = Append(@, "get_error_logs")]
    /\ UNCHANGED <<flag, pc, environ, defined, agent_instruction, app,
                   registrations, clock, prev>>

GetWeather ==
    /\ CanInvoke("get_weather")
    /\ \E query \in Queries :
          last' = [tool |-> "get_weather", query |-> query,
                   result |-> get_weather(query)]
    /\ calls' = calls + 1
    /\ UNCHANGED <<flag, pc, environ, defined, agent_instruction, agent_tools,
                   root_agent, app, registrations, clock, prev>>

\* The clock is read (line 65) only when the query matches.
GetCurrentTime ==
    /\ CanInvoke("get_current_time")
    /\ \E query \in Queries, t \in Readings :
          /\ last' = [tool |-> "get_current_time", query |-> query,
                      now |-> IF MatchesSF(query) THEN t ELSE clock,
                      result |-> get_current_time(query, t)]
          /\ clock' = IF MatchesSF(query) THEN t ELSE clock
    /\ calls' = calls + 1
    /\ UNCHANGED <<flag, pc, environ, defined, agent_instruction, agent_tools,
                   root_agent, app, registrations, prev>>

GetEquipmentState ==
    /\ CanInvoke("get_equipment_state")
    /\ \E equipment_id \in EquipmentIds, pick \in 1..4 :
          last' = [tool |-> "get_equipment_state", equipment_id |-> equipment_id,
                   pick |-> pick,
                   result |-> get_equipment_state(equipment_id, pick)]
    /\ calls' = calls + 1
    /\ UNCHANGED <<flag, pc, environ, defined, agent_instruction, agent_tools,
                   root_agent, app, registrations, clock, prev>>

\* Non-decreasing sequences of n clock readings, none before the clock.
RECURSIVE ReadingSeqs(_, _)
ReadingSeqs(n, from) ==
    IF n = 0 THEN {<<>>}
    ELSE UNION {{<<t>> \o rest : rest \in ReadingSeqs(n - 1, t)} : t \in from..MaxClock}

RECURSIVE PickSeqs(_)
PickSeqs(n) ==
    IF n = 0 THEN {<<>>}
    ELSE {Append(ps, p) : ps \in PickSeqs(n - 1), p \in 1..3}

GetErrorLogs ==
    /\ CanInvoke("get_error_logs")
    /\ \E equipment_id \in EquipmentIds, hours \in HoursValues, n \in 0..3 :
       \E nows \in ReadingSeqs(n, clock), picks \in PickSeqs(n) :
          /\ last' = [tool |-> "get_error_logs", equipment_id |-> equipment_id,
                      hours |-> hours, n |-> n, nows |-> nows, picks |-> picks,
                      result |-> get_error_logs(equipment_id, hours, n, nows, picks)]
          /\ clock' = IF n = 0 THEN clock ELSE nows[n]
    /\ calls' = calls + 1
    /\ UNCHANGED <<flag, pc, environ, defined, agent_instruction, agent_tools,
                   root_agent, app, registrations, prev>>

\* The call returns: the result goes to the runtime and nothing of it stays.
ReturnResult ==
    /\ pc = "serving"
    /\ last # NoCall
    /\ last' = NoCall
    /\ UNCHANGED <<flag, pc, environ, defined, agent_instruction, agent_tools,
                   root_agent, app, registrations, clock, calls, prev>>

-----------------------------------------------------------------------------
\* The environment of the process.

\* Time passes.
Tick ==
    /\ clock < MaxClock
    /\ clock' = clock + 1
    /\ UNCHANGED <<flag, pc, environ, defined, agent_instruction, agent_tools,
                   root_agent, app, registrations, last, calls, prev>>

\* The process ends and the module is launched again, possibly after the
\* toggle of line 28 was edited. What the ended process selected is kept in
\* prev; everything the module body binds starts afresh.
Relaunch ==
    /\ pc \in {"serving", "failed"}
    /\ prev' = IF agent_instruction # "unset"
               THEN [selected |-> TRUE, flag |-> flag,
                     instruction |-> agent_instruction, tools |-> agent_tools]
               ELSE prev
    /\ flag' \in BOOLEAN
    /\ environ' \in LaunchEnvs
    /\ pc' = "env"
    /\ defined' = {}
    /\ agent_instruction' = "unset"
    /\ agent_tools' = <<>>
    /\ root_agent' = NoAgent
    /\ app' = NoApp
    /\ registrations' = 0
    /\ last' = NoCall
    /\ UNCHANGED <<clock, calls>>

Next ==
    \/ SetupEnv
    \/ DefineTool
    \/ SelectProfile
    \/ CreateAgent
    \/ CreateApp
    \/ GetWeather
    \/ GetCurrentTime
    \/ GetEquipmentState
    \/ GetErrorLogs
    \/ ReturnResult
    \/ Tick
    \/ Relaunch

Spec == Init /\ [][Next]_vars

-----------------------------------------------------------------------------
\* Reading a JSON document back.

JsonKeys(obj) == {obj[2][i][1] : i \in 1..Len(obj[2])}
JsonGet(obj, key) == obj[2][CHOOSE i \in 1..Len(obj[2]) : obj[2][i][1] = key][2]
JsonStrings(items) == <<"array", [i \in 1..Len(items) |-> <<"string", items[i]>>]>>

\* a is an earlier instant than b, for two isoformat texts
IsoEarlier(a, b) == a[1] < b[1] \/ (a[1] = b[1] /\ a[2] < b[2])

\* "sf" or "san francisco" occurs in the lower-cased query, position by position
MentionsSF(q) ==
    \/ \E i \in 1..(Len(q) - 1) : LowerChar(q[i]) = "s" /\ LowerChar(q[i + 1]) = "f"
    \/ \E i \in 0..(Len(q) - Len(SAN_FRANCISCO)) :
          \A j \in 1..Len(SAN_FRANCISCO) : LowerChar(q[i + j]) = SAN_FRANCISCO[j]

-----------------------------------------------------------------------------
\* C1: get_weather(q) returns exactly "It's 60 degrees and foggy." when the
\* lower-cased q contains "sf" or "san francisco", and exactly
\* "It's 90 degrees and sunny." for every other q, the empty string included;
\* there is no other result.
C1_Weather ==
    last.tool = "get_weather" =>
        /\ last.result \in {"It's 60 degrees and foggy.", "It's 90 degrees and sunny."}
        /\ last.result = "It's 60 degrees and foggy." <=> MentionsSF(last.query)

\* A mixed-case query that matches only through "san francisco" got the foggy answer.
C1_Witness ==
    /\ last.tool = "get_weather"
    /\ last.query = <<"S","a","n"," ","F","r","a","n","c","i","s","c","o">>
    /\ last.result = "It's 60 degrees and foggy."

\* C2: get_current_time(q) returns the apology text with q substituted
\* verbatim if and only if the lower-cased q contains neither "sf" nor
\* "san francisco"; for a matching q it returns a text that embeds q verbatim
\* and the current instant printed in the America/Los_Angeles zone.
C2_CurrentTime ==
    last.tool = "get_current_time" =>
        LET q == last.query
            r == last.result
            n == Len(q)
        IN  /\ (Len(r) = n + 2 /\ r = <<SorryPrefix>> \o q \o <<".">>) <=> ~MentionsSF(q)
            /\ MentionsSF(q) =>
                  /\ Len(r) = n + 3
                  /\ r[1] = TimePrefix
                  /\ SubSeq(r, 2, n + 1) = q
                  /\ r[n + 2] = " is "
                  /\ LET stamp == r[n + 3]
                         off == IF stamp.z = "-0700" THEN -7 ELSE -8
                     IN  /\ <<stamp.Z, stamp.z>> \in {<<"PST", "-0800">>, <<"PDT", "-0700">>}
                         /\ stamp.Z = (IF last.now >= DstStart THEN "PDT" ELSE "PST")
                         /\ stamp.MS \in 0..(TicksPerHour - 1)
                         /\ (stamp.ymdH - off) * TicksPerHour + stamp.MS = last.now

\* An upper-case matching query was answered with a daylight-time stamp.
C2_Witness ==
    /\ last.tool = "get_current_time"
    /\ last.query = <<"S", "F">>
    /\ last.now >= DstStart
    /\ last.result[1] = TimePrefix

\* C3: the record get_equipment_state(e) returns has equipment_id e, a status
\* among running, maintenance, warning, error, and exactly the fields fixed
\* for that status; pressure_psi occurs only with running, error_code only
\* with error.
C3_EquipmentState ==
    last.tool = "get_equipment_state" =>
        LET r == last.result
            common == {"equipment_id", "status", "state", "temperature_celsius", "alerts"}
            is(status, state, temp, alerts) ==
                /\ JsonGet(r, "status") = <<"string", status>>
                /\ JsonGet(r, "state") = <<"string", state>>
                /\ JsonGet(r, "temperature_celsius") = <<"number", temp>>
                /\ JsonGet(r, "alerts") = JsonStrings(alerts)
        IN  /\ r[1] = "object"
            /\ Len(r[2]) = Cardinality(JsonKeys(r))
            /\ common \subseteq JsonKeys(r)
            /\ JsonGet(r, "equipment_id") = <<"string", last.equipment_id>>
            /\ \/ /\ is("running", "normal_operation", "45.2", <<>>)
                  /\ JsonKeys(r) = common \cup {"pressure_psi"}
                  /\ JsonGet(r, "pressure_psi") = <<"number", "120.0">>
               \/ /\ is("maintenance", "maintenance_mode", "25.0", <<"scheduled_maintenance">>)
                  /\ JsonKeys(r) = common
               \/ /\ is("warning", "high_temperature", "78.5",
                        <<"temperature_warning", "pressure_elevated">>)
                  /\ JsonKeys(r) = common
               \/ /\ is("error", "fault", "95.0", <<"critical_fault">>)
                  /\ JsonKeys(r) = common \cup {"error_code"}
                  /\ JsonGet(r, "error_code") = <<"string", "E503">>

\* pump-1 was reported in the warning status.
C3_Witness ==
    /\ last.tool = "get_equipment_state"
    /\ last.equipment_id = "pump-1"
    /\ JsonGet(last.result, "status") = <<"string", "warning">>

\* The entries of the logs array of an error-log document.
LogsOf(r) == JsonGet(r, "logs")[2]

\* Each entry's code, severity and message form one of the three triples.
JointTriples(r) ==
    \A i \in 1..Len(LogsOf(r)) :
        <<JsonGet(LogsOf(r)[i], "code")[2], JsonGet(LogsOf(r)[i], "severity")[2],
          JsonGet(LogsOf(r)[i], "message")[2]>>
            \in {<<"E404", "warning", "Sensor timeout">>,
                 <<"E500", "error", "System error">>,
                 <<"E503", "critical", "Motor overheating">>}

\* C4: for get_error_logs(e, 24) and every reading of the clock, total_errors
\* is the length of logs, every entry is strictly earlier than the entry
\* before it, and each entry's code, severity and message form one of the
\* three fixed triples.
C4_ErrorLogs ==
    (last.tool = "get_error_logs" /\ last.hours = 24) =>
        LET r == last.result
        IN  /\ JsonGet(r, "total_errors") = <<"number", Len(LogsOf(r))>>
            /\ \A i \in 1..(Len(LogsOf(r)) - 1) :
                  IsoEarlier(JsonGet(LogsOf(r)[i + 1], "timestamp")[2],
                             JsonGet(LogsOf(r)[i], "timestamp")[2])
            /\ JointTriples(r)

\* C5: the flag decides between exactly two profiles: off gives the generic
\* instruction with the tools get_weather and get_current_time, on gives the
\* diagnostic instruction with all four tools; nothing else is bound by the
\* switch or handed to Agent(...).
C5_TwoProfiles ==
    LET basic(instruction, tools) ==
            /\ ~flag
            /\ instruction = BasicInstruction
            /\ Len(tools) = 2
            /\ Range(tools) = {"get_weather", "get_current_time"}
        diagnostic(instruction, tools) ==
            /\ flag
            /\ instruction = DiagnosticInstruction
            /\ Len(tools) = 4
            /\ Range(tools) = {"get_weather", "get_current_time",
                               "get_equipment_state", "get_error_logs"}
    IN  /\ BasicInstruction # DiagnosticInstruction
        /\ agent_instruction # "unset" =>
              \/ basic(agent_instruction, agent_tools)
              \/ diagnostic(agent_instruction, agent_tools)
        /\ root_agent # NoAgent =>
              \/ basic(root_agent.instruction, root_agent.tools)
              \/ diagnostic(root_agent.instruction, root_agent.tools)

\* The agent is registered with the flag off.
C5_Witness ==
    /\ ~flag
    /\ root_agent # NoAgent
    /\ pc = "serving"

\* C6: two launches with the same flag value select the same instruction
\* text and the same set of tool names, whatever the clock shows and whatever
\* tools were invoked before or between them.
C6_Deterministic ==
    (prev.selected /\ agent_instruction # "unset" /\ prev.flag = flag) =>
        /\ prev.instruction = agent_instruction
        /\ Range(prev.tools) = Range(agent_tools)

\* A second launch selected with the flag off as before, after tool calls and
\* with the clock advanced.
C6_Witness ==
    /\ prev.selected
    /\ prev.flag = flag
    /\ ~flag
    /\ agent_instruction # "unset"
    /\ calls > 0
    /\ clock > 0

\* C8: the tools of the agent handed to the runtime are all defined at that
\* moment, and no tool name occurs twice in the list.
C8_ToolsDefined ==
    root_agent # NoAgent =>
        /\ Range(root_agent.tools) \subseteq defined
        /\ Cardinality(Range(root_agent.tools)) = Len(root_agent.tools)
        /\ root_agent.tools # <<>>

\* The agent has just been registered with the diagnostic tools.
C8_Witness ==
    /\ pc = "app"
    /\ flag
    /\ root_agent # NoAgent
    /\ Len(root_agent.tools) = 4

\* What a serving process must keep fixed.
Configuration == <<flag, defined, agent_instruction, agent_tools, root_agent, app,
                   registrations>>

\* The recorded result is what the tool gives for the recorded arguments,
\* clock readings and random draws alone.
ResultFromInputsOnly ==
    /\ last.tool = "get_weather" => last.result = get_weather(last.query)
    /\ last.tool = "get_current_time" =>
          last.result = get_current_time(last.query, last.now)
    /\ last.tool = "get_equipment_state" =>
          last.result = get_equipment_state(last.equipment_id, last.pick)
    /\ last.tool = "get_error_logs" =>
          last.result = get_error_logs(last.equipment_id, last.hours, last.n,
                                       last.nows, last.picks)

\* C9: a process selects one profile and registers the agent once; while it
\* serves, no tool invocation changes the flag, the defined tools, the
\* selected profile, the registered agent or the number of registrations.
C9_ProfileFixed ==
    /\ [](registrations <= 1)
    /\ [](pc = "serving" =>
             /\ registrations = 1
             /\ root_agent.instruction = agent_instruction
             /\ root_agent.tools = agent_tools
             /\ app.root_agent = root_agent
             /\ ResultFromInputsOnly)
    /\ [][(pc = "serving" /\ pc' = "serving") => Configuration' = Configuration]_vars

\* A serving process has answered two invocations, the last one get_weather.
C9_Witness ==
    /\ pc = "serving"
    /\ registrations = 1
    /\ calls >= 2
    /\ last.tool = "get_weather"

====
